---- MODULE Spec2Model ----
(***************************************************************************)
(* The send worker of ptp4u (ptp4u/server/worker.go): sendWorker.Start    *)
(* sets up an event and a general UDP socket, then ranges over the job    *)
(* queue; each job is a *SubscriptionClient whose subscriptionType        *)
(* selects the Sync/Follow-Up, Announce or Delay-Response path.           *)
(*                                                                         *)
(* The worker is one sequential process whose position is pc.  The        *)
(* producer side of the queue (enqueue, close) and the scheduler's        *)
(* writes of the load counter are the environment.  Every call the        *)
(* worker makes on a collaborator (serializer, socket, stats sink) is     *)
(* appended to the history variable log, which holds the calls of the     *)
(* current job (it is emptied when the next job is received).             *)
(***************************************************************************)
EXTENDS Integers, Sequences, FiniteSets, TLC

\* ---------------------------------------------------------------- bounds
MaxJobs == 2
QueueSize == 2
MaxTS == 2
MaxTXTSAttempts == 2
MaxLoad == 1
PoolJobs == 3

Clients == {"c1", "c2"}
NoClient == "none"

\* ptp.MessageType values a SubscriptionClient can carry; Signaling stands
\* for every type the worker's switch has no case for.
SubscriptionTypes == {"Sync", "Announce", "DelayResp", "Signaling"}
Recognized == {"Sync", "Announce", "DelayResp"}

\* ptp.HWTIMESTAMP, ptp.SWTIMESTAMP, and a value that is neither.
TimestampTypes == {"HW", "SW", "other"}
UTCOffsets == {37}
InitSequenceID == [cl \in Clients |-> IF cl = "c1" THEN 41 ELSE 7]

\* The message types the worker sends and counts.
MessageTypes == {"Sync", "FollowUp", "Announce", "DelayResp"}

\* s.id of the worker
WorkerIDs == {1}

\* s.id of the workers of a pool
PoolIDs == {1, 2}

VARIABLES
    pc,                 \* position of Start
    queue,              \* s.queue: buffered channel of *SubscriptionClient
    closed,             \* s.queue has been closed by the producer
    load,               \* s.load
    config,             \* s.config: TimestampType, UTCOffset
    econn, gconn,       \* the two UDP sockets: "none", "open", "closed"
    c,                  \* loop variable: the client of the current job
    txTS,               \* local txTS of the Sync case
    sequenceID,         \* c.sequenceID of every client
    subscriptionType,   \* c.subscriptionType of every client
    job,                \* history: number of jobs received so far
    enq,                \* history: every client ever put on the queue
    seq0,               \* history: sequenceID when the current job was received
    log,                \* history: calls made for the current job, in order
    id,                 \* s.id
    carried,            \* history: IncTX calls minus datagrams sent, per
                        \* message type, over the jobs before the current one
    workers,            \* the pool: pc, queue, closed, c of every worker, and
                        \* seqRead, the value c.sequenceID++ has read
    owner,              \* the worker the scheduler has assigned each client to
    issued,             \* history: number of jobs the scheduler has queued
    advanced            \* history: completed c.sequenceID++ per client

\* The state of the pool, and the state of the single worker apart from the
\* clients' sequence numbers.
pool == <<workers, owner, issued, advanced>>

single == <<pc, queue, closed, load, config, econn, gconn, c, txTS,
            subscriptionType, job, enq, seq0, log, id, carried>>

vars == <<pc, queue, closed, load, config, econn, gconn, c, txTS,
          sequenceID, subscriptionType, job, enq, seq0, log, id, carried,
          workers, owner, issued, advanced>>

\* ---------------------------------------------------------------- events
eclisa(cl) == <<cl, "event">>
gclisa(cl) == <<cl, "general">>
NoAddr == <<NoClient, "-">>

Ev(op, mt, fd, to, sq, val, n, ok) ==
    [op |-> op, mt |-> mt, fd |-> fd, to |-> to,
     sq |-> sq, val |-> val, n |-> n, ok |-> ok, wid |-> 0]

\* A call on the stats sink that names the worker.
EvStat(op, w, val, n) ==
    [Ev(op, "-", "-", NoAddr, 0, val, n, TRUE) EXCEPT !.wid = w]

EvBytesTo(pkt, ok) == Ev("BytesTo", pkt.mt, "-", NoAddr, pkt.sq, pkt.ts, 0, ok)
EvSendto(dest, pkt, ok) == Ev("Sendto", pkt.mt, dest.fd, dest.to, pkt.sq, pkt.ts, 0, ok)
EvIncTX(mt) == Ev("IncTX", mt, "-", NoAddr, 0, 0, 0, TRUE)
EvReadTX(ts, n, ok) == Ev("ReadTXtimestampBuf", "-", "eFd", NoAddr, 0, ts, n, ok)
EvSetMaxTXTSAttempts(w, n) == EvStat("SetMaxTXTSAttempts", w, 0, n)
EvSetMaxWorkerLoad(w, l) == EvStat("SetMaxWorkerLoad", w, l, 0)
EvSetMaxWorkerQueue(w, l) == EvStat("SetMaxWorkerQueue", w, l, 0)

\* IncTX calls minus datagrams sent, for one message type, in a log.
Excess(l, mt) ==
    Len(SelectSeq(l, LAMBDA e : e.op = "IncTX" /\ e.mt = mt))
      - Len(SelectSeq(l, LAMBDA e : e.op = "Sendto" /\ e.mt = mt /\ e.ok))

\* ---------------------------------------------------------------- packets
\* The messages a client builds for the worker to serialize and send.
syncPacket(cl) == [mt |-> "Sync", sq |-> sequenceID[cl], ts |-> 0]
followupPacket(cl, ts) == [mt |-> "FollowUp", sq |-> sequenceID[cl], ts |-> ts]
announcePacket(cl) == [mt |-> "Announce", sq |-> sequenceID[cl], ts |-> 0]
\* c.delayRespP is prepared ahead of the job; the worker sets nothing in it.
delayRespP(cl) == [mt |-> "DelayResp", sq |-> 0, ts |-> 0]

\* ---------------------------------------------------------------- Init
\* Every worker of the pool is constructed and about to run Start; the
\* scheduler has assigned every client to one worker.
PoolStart(o) ==
    /\ workers = [w \in PoolIDs |->
                    [pc |-> "ListenEvent", queue |-> <<>>, closed |-> FALSE,
                     c |-> NoClient, seqRead |-> 0]]
    /\ owner = o
    /\ issued = 0
    /\ advanced = [cl \in Clients |-> 0]

SoleOwner == [cl \in Clients |-> CHOOSE w \in WorkerIDs : TRUE]

SingleStart ==
    /\ pc = "ListenEvent"
    /\ queue = <<>>
    /\ closed = FALSE
    /\ load = 0
    /\ config \in [TimestampType : TimestampTypes, UTCOffset : UTCOffsets]
    /\ econn = "none"
    /\ gconn = "none"
    /\ c = NoClient
    /\ txTS = 0
    /\ sequenceID = InitSequenceID
    /\ subscriptionType \in [Clients -> SubscriptionTypes]
    /\ job = 0
    /\ enq = <<>>
    /\ seq0 = InitSequenceID
    /\ log = <<>>
    /\ id \in WorkerIDs
    /\ carried = [mt \in MessageTypes |-> 0]

Init ==
    /\ SingleStart
    /\ PoolStart(SoleOwner)

\* ---------------------------------------------------------------- environment
Running == pc # "fatal"

\* A producer sends a client on the channel (blocks when the buffer is full).
Enqueue ==
    /\ Running
    /\ ~closed
    /\ Len(queue) < QueueSize
    /\ Len(enq) < MaxJobs
    /\ \E cl \in Clients :
          /\ queue' = Append(queue, cl)
          /\ enq' = Append(enq, cl)
    /\ UNCHANGED <<pc, closed, load, config, econn, gconn, c, txTS,
                   sequenceID, subscriptionType, job, seq0, log,
                   id, carried, pool>>

\* The producer closes the channel.
CloseQueue ==
    /\ Running
    /\ ~closed
    /\ closed' = TRUE
    /\ UNCHANGED <<pc, queue, load, config, econn, gconn, c, txTS,
                   sequenceID, subscriptionType, job, enq, seq0, log,
                   id, carried, pool>>

\* The scheduler changes the number of subscriptions assigned to the worker.
SetLoad ==
    /\ Running
    /\ \E l \in 0..MaxLoad :
          /\ l # load
          /\ load' = l
    /\ UNCHANGED <<pc, queue, closed, config, econn, gconn, c, txTS,
                   sequenceID, subscriptionType, job, enq, seq0, log,
                   id, carried, pool>>

\* ---------------------------------------------------------------- setup
\* log.Fatalf after a failed setup call ends the process.
SetupNext_goOn(ok, next) == next

SetupNext(ok, next) == IF ok THEN next ELSE "fatal"

\* econn, err := net.ListenUDP(...); defer econn.Close()
ListenEvent ==
    /\ pc = "ListenEvent"
    /\ \E ok \in BOOLEAN :
          /\ econn' = IF ok THEN "open" ELSE econn
          /\ pc' = SetupNext(ok, "ConnFdEvent")
    /\ UNCHANGED <<queue, closed, load, config, gconn, c, txTS,
                   sequenceID, subscriptionType, job, enq, seq0, log,
                   id, carried, pool>>

\* eFd, err := ptp.ConnFd(econn)
ConnFdEvent ==
    /\ pc = "ConnFdEvent"
    /\ \E ok \in BOOLEAN : pc' = SetupNext(ok, "EnableTimestamps")
    /\ UNCHANGED <<queue, closed, load, config, econn, gconn, c, txTS,
                   sequenceID, subscriptionType, job, enq, seq0, log,
                   id, carried, pool>>

\* switch s.config.TimestampType: enable HW or SW timestamps, or give up
EnableTimestamps ==
    /\ pc = "EnableTimestamps"
    /\ \E ok \in BOOLEAN :
          pc' = SetupNext(ok /\ config.TimestampType \in {"HW", "SW"},
                          "ListenGeneral")
    /\ UNCHANGED <<queue, closed, load, config, econn, gconn, c, txTS,
                   sequenceID, subscriptionType, job, enq, seq0, log,
                   id, carried, pool>>

\* gconn, err := net.ListenUDP(...); defer gconn.Close()
ListenGeneral ==
    /\ pc = "ListenGeneral"
    /\ \E ok \in BOOLEAN :
          /\ gconn' = IF ok THEN "open" ELSE gconn
          /\ pc' = SetupNext(ok, "ConnFdGeneral")
    /\ UNCHANGED <<queue, closed, load, config, econn, c, txTS,
                   sequenceID, subscriptionType, job, enq, seq0, log,
                   id, carried, pool>>

\* gFd, err := ptp.ConnFd(gconn); the buffers are allocated; the loop starts
ConnFdGeneral ==
    /\ pc = "ConnFdGeneral"
    /\ \E ok \in BOOLEAN : pc' = SetupNext(ok, "range")
    /\ UNCHANGED <<queue, closed, load, config, econn, gconn, c, txTS,
                   sequenceID, subscriptionType, job, enq, seq0, log,
                   id, carried, pool>>

\* ---------------------------------------------------------------- job loop
\* What a receive on the channel yields and leaves behind.
ChanRecv_last(q) == [val |-> q[Len(q)], rest |-> SubSeq(q, 1, Len(q) - 1)]

ChanRecv(q) == [val |-> Head(q), rest |-> Tail(q)]

\* for c := range s.queue: the next client is received
Receive ==
    /\ pc = "range"
    /\ queue # <<>>
    /\ c' = ChanRecv(queue).val
    /\ queue' = ChanRecv(queue).rest
    /\ job' = job + 1
    /\ seq0' = sequenceID
    /\ carried' = [mt \in MessageTypes |-> carried[mt] + Excess(log, mt)]
    /\ log' = <<>>
    /\ pc' = "switch"
    /\ UNCHANGED <<closed, load, config, econn, gconn, txTS,
                   sequenceID, subscriptionType, enq, id, pool>>

\* When a range over a channel ends: the channel is closed and holds nothing.
RangeDone_whenEmpty(q, cl) == q = <<>>

RangeDone(q, cl) == q = <<>> /\ cl

\* for c := range s.queue: the channel is closed and drained, Start returns
RangeEnd ==
    /\ pc = "range"
    /\ RangeDone(queue, closed)
    /\ pc' = "defer"
    /\ UNCHANGED <<queue, closed, load, config, econn, gconn, c, txTS,
                   sequenceID, subscriptionType, job, enq, seq0, log,
                   id, carried, pool>>

\* defer econn.Close() and defer gconn.Close(): what they leave of the sockets
DeferredCloses_eventOnly == [econn |-> "closed", gconn |-> gconn]

DeferredCloses == [econn |-> "closed", gconn |-> "closed"]

\* the deferred gconn.Close() and econn.Close() run as Start returns
RunDefers ==
    /\ pc = "defer"
    /\ gconn' = DeferredCloses.gconn
    /\ econn' = DeferredCloses.econn
    /\ pc' = "returned"
    /\ UNCHANGED <<queue, closed, load, config, c, txTS,
                   sequenceID, subscriptionType, job, enq, seq0, log,
                   id, carried, pool>>

\* `continue` of the for loop: back to the receive, past the end of the body
Continue_break == "bookkeeping"

Continue == "range"

\* `return` inside the loop: leave Start (the deferred closes run)
Return == "defer"

\* s.stats.IncTX(type) after a send that returned no error
IncTXOnSuccess_always(mt, ok) == <<EvIncTX(mt)>>

IncTXOnSuccess(mt, ok) == IF ok THEN <<EvIncTX(mt)>> ELSE <<>>

\* if err != nil { ...; continue } after a ptp.BytesTo
BytesToNext_return(ok, next) == IF ok THEN next ELSE Return

BytesToNext_break(ok, next) == IF ok THEN next ELSE "bookkeeping"

BytesToNext(ok, next) == IF ok THEN next ELSE Continue

\* ---- case ptp.MessageSync
SyncBytesTo ==
    /\ pc = "switch"
    /\ subscriptionType[c] = "Sync"
    /\ \E ok \in BOOLEAN :
          /\ log' = Append(log, EvBytesTo(syncPacket(c), ok))
          /\ pc' = BytesToNext(ok, "SyncSendto")
    /\ UNCHANGED <<queue, closed, load, config, econn, gconn, c, txTS,
                   sequenceID, subscriptionType, job, enq, seq0,
                   id, carried, pool>>

\* unix.Sendto(eFd, ..., c.eclisa)
SyncDest(cl) == [fd |-> "eFd", to |-> eclisa(cl)]

SyncSendtoNext_fallthrough(ok) == "ReadTXtimestamp"

SyncSendtoNext(ok) == IF ok THEN "ReadTXtimestamp" ELSE Continue

\* unix.Sendto(eFd, buf[:n], 0, c.eclisa); s.stats.IncTX on success
SyncSendto ==
    /\ pc = "SyncSendto"
    /\ \E ok \in BOOLEAN :
          /\ log' = log \o <<EvSendto(SyncDest(c), syncPacket(c), ok)>>
                        \o IncTXOnSuccess("Sync", ok)
          /\ pc' = SyncSendtoNext(ok)
    /\ UNCHANGED <<queue, closed, load, config, econn, gconn, c, txTS,
                   sequenceID, subscriptionType, job, enq, seq0,
                   id, carried, pool>>

\* What ptp.ReadTXtimestampBuf can return: a timestamp within the attempt
\* bound, or an error once the bound is used up.
ReadTXtimestampBufResults ==
    [ts : 1..MaxTS, attempts : 1..MaxTXTSAttempts, ok : {TRUE}]
        \cup [ts : {0}, attempts : {MaxTXTSAttempts}, ok : {FALSE}]

ReadTXNext_fallthrough(ok) == "FollowupBytesTo"

ReadTXNext_retry(ok) == IF ok THEN "FollowupBytesTo" ELSE "ReadTXtimestamp"

ReadTXNext(ok) == IF ok THEN "FollowupBytesTo" ELSE Continue

\* if s.config.TimestampType != ptp.HWTIMESTAMP { txTS = txTS.Add(UTCOffset) }
AddUTCOffset_always(ts) == ts + config.UTCOffset

AddUTCOffset(ts) ==
    IF config.TimestampType # "HW" THEN ts + config.UTCOffset ELSE ts

\* txTS, attempts, err := ptp.ReadTXtimestampBuf(...);
\* s.stats.SetMaxTXTSAttempts(s.id, int64(attempts)), before err is looked at
ReadTXCalls_afterCheck(r) ==
    <<EvReadTX(r.ts, r.attempts, r.ok)>>
        \o (IF r.ok THEN <<EvSetMaxTXTSAttempts(id, r.attempts)>> ELSE <<>>)

ReadTXCalls(r) ==
    <<EvReadTX(r.ts, r.attempts, r.ok), EvSetMaxTXTSAttempts(id, r.attempts)>>

\* the retrieval, its report, and the offset added to the timestamp
ReadTXtimestamp ==
    /\ pc = "ReadTXtimestamp"
    /\ \E r \in ReadTXtimestampBufResults :
          /\ log' = log \o ReadTXCalls(r)
          /\ txTS' = IF r.ok THEN AddUTCOffset(r.ts) ELSE r.ts
          /\ pc' = ReadTXNext(r.ok)
    /\ UNCHANGED <<queue, closed, load, config, econn, gconn, c,
                   sequenceID, subscriptionType, job, enq, seq0,
                   id, carried, pool>>

\* followup := c.followupPacket(txTS); ptp.BytesTo(followup, buf)
FollowupBytesTo ==
    /\ pc = "FollowupBytesTo"
    /\ \E ok \in BOOLEAN :
          /\ log' = Append(log, EvBytesTo(followupPacket(c, txTS), ok))
          /\ pc' = BytesToNext(ok, "FollowupSendto")
    /\ UNCHANGED <<queue, closed, load, config, econn, gconn, c, txTS,
                   sequenceID, subscriptionType, job, enq, seq0,
                   id, carried, pool>>

\* unix.Sendto(gFd, ..., c.gclisa)
FollowupDest_event(cl) == [fd |-> "eFd", to |-> eclisa(cl)]

FollowupDest(cl) == [fd |-> "gFd", to |-> gclisa(cl)]

FollowupSendtoNext(ok) == IF ok THEN "bookkeeping" ELSE Continue

\* unix.Sendto(gFd, buf[:n], 0, c.gclisa); s.stats.IncTX(FollowUp) on success
FollowupSendto ==
    /\ pc = "FollowupSendto"
    /\ \E ok \in BOOLEAN :
          /\ log' = log \o <<EvSendto(FollowupDest(c),
                                      followupPacket(c, txTS), ok)>>
                        \o IncTXOnSuccess("FollowUp", ok)
          /\ pc' = FollowupSendtoNext(ok)
    /\ UNCHANGED <<queue, closed, load, config, econn, gconn, c, txTS,
                   sequenceID, subscriptionType, job, enq, seq0,
                   id, carried, pool>>

\* ---- case ptp.MessageAnnounce
AnnounceBytesTo ==
    /\ pc = "switch"
    /\ subscriptionType[c] = "Announce"
    /\ \E ok \in BOOLEAN :
          /\ log' = Append(log, EvBytesTo(announcePacket(c), ok))
          /\ pc' = BytesToNext(ok, "AnnounceSendto")
    /\ UNCHANGED <<queue, closed, load, config, econn, gconn, c, txTS,
                   sequenceID, subscriptionType, job, enq, seq0,
                   id, carried, pool>>

AnnounceDest_event(cl) == [fd |-> "eFd", to |-> eclisa(cl)]

AnnounceDest(cl) == [fd |-> "gFd", to |-> gclisa(cl)]

AnnounceSendtoNext_return(ok) == IF ok THEN "bookkeeping" ELSE Return

AnnounceSendtoNext(ok) == IF ok THEN "bookkeeping" ELSE Continue

AnnounceSendto ==
    /\ pc = "AnnounceSendto"
    /\ \E ok \in BOOLEAN :
          /\ log' = log \o <<EvSendto(AnnounceDest(c), announcePacket(c), ok)>>
                        \o IncTXOnSuccess("Announce", ok)
          /\ pc' = AnnounceSendtoNext(ok)
    /\ UNCHANGED <<queue, closed, load, config, econn, gconn, c, txTS,
                   sequenceID, subscriptionType, job, enq, seq0,
                   id, carried, pool>>

\* ---- case ptp.MessageDelayResp
DelayRespBytesTo ==
    /\ pc = "switch"
    /\ subscriptionType[c] = "DelayResp"
    /\ \E ok \in BOOLEAN :
          /\ log' = Append(log, EvBytesTo(delayRespP(c), ok))
          /\ pc' = BytesToNext(ok, "DelayRespSendto")
    /\ UNCHANGED <<queue, closed, load, config, econn, gconn, c, txTS,
                   sequenceID, subscriptionType, job, enq, seq0,
                   id, carried, pool>>

DelayRespDest(cl) == [fd |-> "gFd", to |-> gclisa(cl)]

DelayRespSendtoNext_continue(ok) == IF ok THEN "bookkeeping" ELSE Continue

DelayRespSendtoNext(ok) == IF ok THEN "bookkeeping" ELSE Return

DelayRespSendto ==
    /\ pc = "DelayRespSendto"
    /\ \E ok \in BOOLEAN :
          /\ log' = log \o <<EvSendto(DelayRespDest(c), delayRespP(c), ok)>>
                        \o IncTXOnSuccess("DelayResp", ok)
          /\ pc' = DelayRespSendtoNext(ok)
    /\ UNCHANGED <<queue, closed, load, config, econn, gconn, c, txTS,
                   sequenceID, subscriptionType, job, enq, seq0,
                   id, carried, pool>>

\* ---- default: log.Errorf("Unknown subscription type"); continue
UnknownTypeNext_break == "bookkeeping"

UnknownTypeNext == Continue

UnknownType ==
    /\ pc = "switch"
    /\ subscriptionType[c] \notin Recognized
    /\ pc' = UnknownTypeNext
    /\ UNCHANGED <<queue, closed, load, config, econn, gconn, c, txTS,
                   sequenceID, subscriptionType, job, enq, seq0, log,
                   id, carried, pool>>

\* ---- after the switch
\* len(s.queue): the jobs waiting on the channel
QueueDepth_withCurrent(q) == Len(q) + 1

QueueDepth(q) == Len(q)

\* c.sequenceID++; SetMaxWorkerLoad(s.id, s.load);
\* SetMaxWorkerQueue(s.id, len(s.queue))
Bookkeeping ==
    /\ pc = "bookkeeping"
    /\ sequenceID' = [sequenceID EXCEPT ![c] = @ + 1]
    /\ log' = log \o <<EvSetMaxWorkerLoad(id, load),
                       EvSetMaxWorkerQueue(id, QueueDepth(queue))>>
    /\ pc' = "range"
    /\ UNCHANGED <<queue, closed, load, config, econn, gconn, c, txTS,
                   subscriptionType, job, enq, seq0,
                   id, carried, pool>>

\* ---------------------------------------------------------------- spec
Setup ==
    \/ ListenEvent
    \/ ConnFdEvent
    \/ EnableTimestamps
    \/ ListenGeneral
    \/ ConnFdGeneral

Worker ==
    \/ Setup
    \/ Receive
    \/ RangeEnd
    \/ RunDefers
    \/ SyncBytesTo
    \/ SyncSendto
    \/ ReadTXtimestamp
    \/ FollowupBytesTo
    \/ FollowupSendto
    \/ AnnounceBytesTo
    \/ AnnounceSendto
    \/ DelayRespBytesTo
    \/ DelayRespSendto
    \/ UnknownType
    \/ Bookkeeping

Environment ==
    \/ Enqueue
    \/ CloseQueue
    \/ SetLoad

Next == Worker \/ Environment

Spec == Init /\ [][Next]_vars

\* The Go scheduler keeps running the worker goroutine while it can step.
LiveSpec == Spec /\ WF_vars(Worker)

\* ---------------------------------------------------------------- reading the log
Last(q) == q[Len(q)]

IsSendto(e, mt) == e.op = "Sendto" /\ e.mt = mt
IsReadTX(e) == e.op = "ReadTXtimestampBuf"

\* Every call made for the current job so far has succeeded.
AllOK == \A i \in DOMAIN log : log[i].ok

\* The datagrams that left the worker for the current job, in order.
Datagrams == SelectSeq(log, LAMBDA e : e.op = "Sendto" /\ e.ok)

Count(op) == Len(SelectSeq(log, LAMBDA e : e.op = op))

\* The worker has stopped: Start is returning or has returned.
Stopped == pc \in {"defer", "returned"}

\* The current job has been received and the worker has left its body.
JobEnded == job > 0 /\ pc \in {"range", "defer", "returned"}

\* ... and is back at the head of the loop.
JobDone == job > 0 /\ pc = "range"

DelayRespSendFailed ==
    /\ log # <<>>
    /\ IsSendto(Last(log), "DelayResp")
    /\ ~Last(log).ok

C2_SyncSendFailure ==
    (\E i \in DOMAIN log : IsSendto(log[i], "Sync") /\ ~log[i].ok)
        => \A j \in DOMAIN log :
              /\ ~IsSendto(log[j], "FollowUp")
              /\ ~IsReadTX(log[j])
              /\ log[j].op # "SetMaxTXTSAttempts"
              /\ ~(log[j].op = "IncTX" /\ log[j].mt = "Sync")

\* A Sync job whose send failed has ended.
C2_Witness ==
    /\ JobDone
    /\ subscriptionType[c] = "Sync"
    /\ \E i \in DOMAIN log :
          IsSendto(log[i], "Sync") /\ log[i].fd = "eFd" /\ ~log[i].ok

\* ---------------------------------------------------------------- C3
\* C3: in a Sync job whose TX-timestamp retrieval returns an error, no
\* Follow-Up is sent: exactly one datagram, the Sync, leaves the worker.
C3_TimestampFailure ==
    (\E i \in DOMAIN log : IsReadTX(log[i]) /\ ~log[i].ok)
        => /\ \A j \in DOMAIN log : ~IsSendto(log[j], "FollowUp")
           /\ Len(Datagrams) = 1
           /\ Datagrams[1].mt = "Sync"

\* A Sync job whose timestamp retrieval failed has ended.
C3_Witness ==
    /\ JobDone
    /\ \E i \in DOMAIN log : IsReadTX(log[i]) /\ ~log[i].ok

\* ---------------------------------------------------------------- C4
\* C4: once a Delay-Response send has failed, the worker dequeues no job,
\* makes no further call (no datagram, no stats report), changes no
\* sequence number and only goes on to return.
C4_DelayRespFailureStops ==
    [][DelayRespSendFailed
         => /\ log' = log
            /\ job' = job
            /\ c' = c
            /\ sequenceID' = sequenceID
            /\ Len(queue') >= Len(queue)
            /\ pc' \in {"defer", "returned"}]_vars

\* Start has returned after a failed Delay-Response send while a job that
\* was never received waits on the open queue.
C4_Witness ==
    /\ DelayRespSendFailed
    /\ pc = "returned"
    /\ queue # <<>>
    /\ ~closed

\* ---------------------------------------------------------------- C5
\* C5: the origin timestamp of every Follow-Up that reaches its send is the
\* retrieved TX timestamp plus the configured offset in Software mode, and
\* the retrieved TX timestamp itself in Hardware mode.
C5_FollowupTimestamp ==
    \A i \in DOMAIN log :
        IsSendto(log[i], "FollowUp")
            => \E j \in 1..(i - 1) :
                  /\ IsReadTX(log[j])
                  /\ log[j].ok
                  /\ config.TimestampType = "SW"
                        => log[i].val = log[j].val + config.UTCOffset
                  /\ config.TimestampType = "HW"
                        => log[i].val = log[j].val
                  /\ config.TimestampType \in {"HW", "SW"}

\* A Follow-Up was sent in Hardware mode with a non-zero offset configured.
C5_Witness ==
    /\ config.TimestampType = "HW"
    /\ config.UTCOffset # 0
    /\ \E i \in DOMAIN log : IsSendto(log[i], "FollowUp") /\ log[i].ok

\* ---------------------------------------------------------------- C6
\* C6: a fully successful Sync job for a client with sequence number n
\* sends exactly two datagrams, first the Sync with n on the event endpoint
\* to the client's event address, then the Follow-Up with n on the general
\* endpoint to the client's general address; the client's number becomes
\* n+1, and not before the Follow-Up was sent.
Wire(e) == [mt |-> e.mt, fd |-> e.fd, to |-> e.to, sq |-> e.sq]

C6_SuccessfulSync ==
    (job > 0 /\ subscriptionType[c] = "Sync")
        => /\ (JobEnded /\ AllOK)
                => /\ Len(Datagrams) = 2
                   /\ Wire(Datagrams[1]) =
                        [mt |-> "Sync", fd |-> "eFd",
                         to |-> eclisa(c), sq |-> seq0[c]]
                   /\ Wire(Datagrams[2]) =
                        [mt |-> "FollowUp", fd |-> "gFd",
                         to |-> gclisa(c), sq |-> seq0[c]]
                   /\ sequenceID[c] = seq0[c] + 1
           /\ sequenceID[c] # seq0[c]
                => /\ Len(Datagrams) = 2
                   /\ Datagrams[2].mt = "FollowUp"

\* The second job, a Sync job, has ended with every step successful.
C6_Witness ==
    /\ JobDone
    /\ job >= 2
    /\ subscriptionType[c] = "Sync"
    /\ AllOK
    /\ sequenceID[c] = seq0[c] + 1

\* ---------------------------------------------------------------- C7
HasReports ==
    /\ Count("SetMaxWorkerLoad") = 1
    /\ Count("SetMaxWorkerQueue") = 1
    /\ Len(log) >= 2
    /\ log[Len(log) - 1].op = "SetMaxWorkerLoad"
    /\ Last(log).op = "SetMaxWorkerQueue"

InLoop ==
    pc \notin {"ListenEvent", "ConnFdEvent", "EnableTimestamps",
               "ListenGeneral", "ConnFdGeneral", "fatal"}

\* C8: a failure inside a Sync or Announce job never stops the worker (it
\* stops only after a failed Delay-Response send or on a closed and drained
\* queue), and unless a Delay-Response send fails every job that was put on
\* the queue is eventually received by the running worker.
C8_FailuresDoNotStop ==
    /\ [](Stopped => (DelayRespSendFailed \/ (closed /\ queue = <<>>)))
    /\ \A k \in 1..MaxJobs :
          (InLoop /\ Len(enq) >= k) ~> (job >= k \/ DelayRespSendFailed)

\* A Sync or Announce job has failed and the worker is back at the head of
\* the loop with a job waiting.
C8_Witness ==
    /\ JobDone
    /\ subscriptionType[c] \in {"Sync", "Announce"}
    /\ ~AllOK
    /\ queue # <<>>

\* ---------------------------------------------------------------- C9
\* C9: a job whose type is not Sync, Announce or DelayResp is skipped with
\* no side effect: no call is made for it (no datagram, no transmit count,
\* no load or queue report), no sequence number changes, and the worker
\* goes back to the head of the loop.
C9_UnknownTypeSkipped ==
    [][(job > 0 /\ subscriptionType[c] \notin Recognized /\ job' = job)
         => /\ log = <<>>
            /\ log' = <<>>
            /\ sequenceID' = seq0
            /\ pc' \in {"switch", "range", "defer", "returned"}
            /\ (pc = "switch" /\ pc' # pc) => pc' = "range"]_vars

\* The worker has received another job after skipping one of unknown type.
C9_Witness ==
    /\ job >= 2
    /\ subscriptionType[enq[job - 1]] \notin Recognized
    /\ pc = "switch"

\* ---------------------------------------------------------------- C10
\* The current job has run to its end: it failed, it made its reports, or
\* it was of an unknown type.
JobFinal ==
    \/ ~AllOK
    \/ (log # <<>> /\ Last(log).op = "SetMaxWorkerQueue")
    \/ subscriptionType[c] \notin Recognized

\* C10: jobs are processed in the order they were enqueued, one at a time:
\* the k-th job received is the k-th job enqueued, the queue holds exactly
\* the jobs enqueued after it, and a job is received only when the one
\* before it has run to its end.
C10_Fifo ==
    /\ [](/\ job <= Len(enq)
          /\ queue = SubSeq(enq, job + 1, Len(enq))
          /\ job > 0 => c = enq[job])
    /\ [][job' # job
            => /\ job' = job + 1
               /\ pc = "range"
               /\ job > 0 => JobFinal]_vars

\* The second job enqueued, of another client than the first, is the
\* second job processed and has reached its bookkeeping.
C10_Witness ==
    /\ job = 2
    /\ enq[1] # enq[2]
    /\ c = enq[2]
    /\ pc = "bookkeeping"

\* ---------------------------------------------------------------- C11
\* C11: whenever the job loop has been left, by a closed and drained queue
\* or by a failed Delay-Response send, both sockets the worker opened are
\* closed once Start has returned; while the loop runs both are open.
C11_SocketsClosedOnReturn ==
    /\ pc = "returned" => (econn = "closed" /\ gconn = "closed")
    /\ (InLoop /\ pc # "returned") => (econn = "open" /\ gconn = "open")
    /\ Stopped => (DelayRespSendFailed \/ (closed /\ queue = <<>>))

\* Start has returned after a failed Delay-Response send, sockets closed.
C11_Witness ==
    /\ pc = "returned"
    /\ DelayRespSendFailed
    /\ econn = "closed"
    /\ gconn = "closed"

\* ---------------------------------------------------------------- C12
\* C12 (as stated): once the queue is closed the worker processes every job
\* still in it before it returns.
C12_DrainsBeforeReturn ==
    [][(closed /\ ~Stopped /\ Stopped') => queue' = <<>>]_vars

\* C12 (amended): once the queue is closed the worker eventually returns,
\* and it has then received every job that was enqueued unless a
\* Delay-Response send failed; while the queue is open and empty the worker
\* stays at the receive, makes no call and changes no sequence number.
C12_ClosedQueueDrains ==
    /\ (closed /\ InLoop) ~> (pc = "returned")
    /\ []((closed /\ pc = "returned")
            => ((queue = <<>> /\ job = Len(enq)) \/ DelayRespSendFailed))
    /\ [][(pc = "range" /\ queue = <<>> /\ ~closed)
            => /\ pc' = pc
               /\ log' = log
               /\ job' = job
               /\ sequenceID' = sequenceID]_vars

\* Start has returned from a closed queue after receiving two jobs, with
\* no failed Delay-Response send.
C12_Witness ==
    /\ pc = "returned"
    /\ closed
    /\ ~DelayRespSendFailed
    /\ job >= 2
    /\ queue = <<>>

\* ---------------------------------------------------------------- C13
\* C13: when setup fails (a bind, a descriptor, the timestamp enablement,
\* or a timestamp mode that is neither Hardware nor Software) the worker
\* never enters the job loop: no job is received, no call is made for a
\* job and no sequence number changes.
C13_SetupFailure ==
    /\ ~InLoop
         => /\ job = 0
            /\ c = NoClient
            /\ log = <<>>
            /\ sequenceID = InitSequenceID
    /\ config.TimestampType \notin {"HW", "SW"} => ~InLoop

\* Setup has failed after the event socket was opened, with a job waiting
\* on the queue.
C13_Witness ==
    /\ pc = "fatal"
    /\ econn = "open"
    /\ queue # <<>>
    /\ job = 0

\* ---------------------------------------------------------------- C15
\* C15: every TX-timestamp retrieval, successful or failed, is followed at
\* once, before the job can be abandoned, by a report of the attempt count
\* it returned under the worker's own id; after a retrieval that failed by
\* exhaustion the reported count is the retry bound.
C15_AttemptsReported ==
    /\ \A i \in DOMAIN log :
          IsReadTX(log[i])
              => /\ i < Len(log)
                 /\ log[i + 1].op = "SetMaxTXTSAttempts"
                 /\ log[i + 1].n = log[i].n
                 /\ log[i + 1].wid = id
                 /\ ~log[i].ok => log[i + 1].n = MaxTXTSAttempts
    /\ Count("SetMaxTXTSAttempts") = Count("ReadTXtimestampBuf")

\* A Sync job was abandoned on a failed retrieval after the bound was
\* reported.
C15_Witness ==
    /\ JobDone
    /\ \E i \in DOMAIN log :
          /\ IsReadTX(log[i])
          /\ ~log[i].ok
          /\ log[i + 1].op = "SetMaxTXTSAttempts"
          /\ log[i + 1].n = MaxTXTSAttempts

\* ---------------------------------------------------------------- C16
\* C16: in every state, for each message type, as many transmit-count
\* increments have been reported as datagrams of that type were sent with
\* success, over all jobs so far and within the current job; so the Sync
\* count is raised for a sent Sync whose retrieval or Follow-Up then fails,
\* and the Follow-Up count is not raised by a failed Follow-Up send.
C16_CountersMatchDatagrams ==
    \A mt \in MessageTypes :
        /\ carried[mt] + Excess(log, mt) = 0
        /\ Excess(log, mt) = 0

\* The second job sent its Sync, and its Follow-Up send failed.
C16_Witness ==
    /\ JobDone
    /\ job >= 2
    /\ \E i \in DOMAIN log : IsSendto(log[i], "Sync") /\ log[i].ok
    /\ \E i \in DOMAIN log : IsSendto(log[i], "FollowUp") /\ ~log[i].ok
    /\ \E i \in DOMAIN log : log[i].op = "IncTX" /\ log[i].mt = "Sync"

\* ---------------------------------------------------------------- C17
\* C17: only Sync datagrams go out on the event endpoint, to the current
\* client's event address; Follow-Up, Announce and Delay-Response datagrams
\* go out on the general endpoint, to the current client's general address;
\* nothing is ever sent to an address of another client.
C17_EndpointsAndAddresses ==
    \A i \in DOMAIN log :
        log[i].op = "Sendto"
            => /\ log[i].mt \in MessageTypes
               /\ log[i].mt = "Sync"
                    => (log[i].fd = "eFd" /\ log[i].to = eclisa(c))
               /\ log[i].mt # "Sync"
                    => (log[i].fd = "gFd" /\ log[i].to = gclisa(c))
               /\ log[i].to[1] = c

\* The second job, of another client than the first, sent an Announce.
C17_Witness ==
    /\ job >= 2
    /\ enq[1] # enq[2]
    /\ c = enq[2]
    /\ \E i \in DOMAIN log :
          /\ IsSendto(log[i], "Announce")
          /\ log[i].ok
          /\ log[i].to = gclisa(c)

\* ---------------------------------------------------------------- C18
DelayRespSerializeFailed ==
    \E i \in DOMAIN log :
        log[i].op = "BytesTo" /\ log[i].mt = "DelayResp" /\ ~log[i].ok

\* C18: the worker stops only on a failed Delay-Response send (or on a
\* closed and drained queue); a Delay-Response job whose serialization
\* fails makes no other call, sends nothing, changes no sequence number
\* and leaves the worker at the head of the loop.
C18_OnlyDelayRespSendStops ==
    /\ [][(~Stopped /\ Stopped')
            => \/ DelayRespSendFailed'
               \/ (pc = "range" /\ closed /\ queue = <<>>)]_vars
    /\ [](DelayRespSerializeFailed
            => /\ Len(log) = 1
               /\ sequenceID = seq0
               /\ \/ pc = "range"
                  \/ (Stopped /\ closed /\ queue = <<>>))

\* A Delay-Response job failed to serialize and the worker is back at the
\* head of the loop with the next job waiting.
C18_Witness ==
    /\ JobDone
    /\ DelayRespSerializeFailed
    /\ queue # <<>>

\* ---------------------------------------------------------------- C19
\* C19: a job makes at most one TX-timestamp retrieval, only if it is a
\* Sync job and only after its Sync was sent with success; an Announce or
\* Delay-Response job makes none and attempts at most one send, a Sync job
\* at most two.
C19_StepsPerJob ==
    /\ Count("ReadTXtimestampBuf") <= 1
    /\ \A i \in DOMAIN log :
          IsReadTX(log[i])
              => /\ subscriptionType[c] = "Sync"
                 /\ \E j \in 1..(i - 1) : IsSendto(log[j], "Sync") /\ log[j].ok
    /\ job > 0 =>
          /\ subscriptionType[c] \in {"Announce", "DelayResp"}
                => (Count("Sendto") <= 1 /\ Count("ReadTXtimestampBuf") = 0)
          /\ subscriptionType[c] = "Sync" => Count("Sendto") <= 2
          /\ subscriptionType[c] \notin Recognized => Count("Sendto") = 0

\* A Sync job has made its retrieval and sent its two datagrams.
C19_Witness ==
    /\ JobDone
    /\ subscriptionType[c] = "Sync"
    /\ Count("ReadTXtimestampBuf") = 1
    /\ Len(Datagrams) = 2

\* ---------------------------------------------------------------- C20
\* C20: the queue depth reported at the end of a job is the number of jobs
\* waiting on the queue at that moment (the job just processed is not one
\* of them), the load reported is the load counter's value at that moment,
\* both under the worker's id, and no step of the worker changes the load.
C20_ReportedValues ==
    /\ [][(pc = "bookkeeping" /\ pc' # pc)
            => /\ Len(log') = Len(log) + 2
               /\ log'[Len(log) + 1].op = "SetMaxWorkerLoad"
               /\ log'[Len(log) + 1].val = load
               /\ log'[Len(log) + 1].wid = id
               /\ log'[Len(log) + 2].op = "SetMaxWorkerQueue"
               /\ log'[Len(log) + 2].val = Len(queue)
               /\ log'[Len(log) + 2].val = Len(enq) - job
               /\ log'[Len(log) + 2].wid = id
               /\ load' = load]_vars
    /\ [][load' # load
            => /\ pc' = pc
               /\ log' = log
               /\ job' = job
               /\ queue' = queue
               /\ sequenceID' = sequenceID]_vars

\* A job has ended with a reported load of 1 and a reported depth of 1.
C20_Witness ==
    /\ JobDone
    /\ HasReports
    /\ log[Len(log) - 1].val = 1
    /\ Last(log).val = 1

\* ---------------------------------------------------------------- pool
\* Several workers run Start concurrently, each on its own queue.  The
\* switch of a job is one step here (what it sends is the single worker's
\* matter); c.sequenceID++ is a read and a write of the client's field.
PoolInit ==
    /\ SingleStart
    /\ config.TimestampType = "HW"
    /\ \E o \in [Clients -> PoolIDs] : PoolStart(o)

\* log.Fatalf in any worker ends the process.
PoolRunning == \A w \in PoolIDs : workers[w].pc # "fatal"

\* s.queue: the queue a worker ranges over is its own
OwnQueue_shared(w) == CHOOSE x \in PoolIDs : \A y \in PoolIDs : x <= y

OwnQueue(w) == w

\* The places a Sync job can leave the switch for.
SyncExits ==
    {BytesToNext(FALSE, "SyncSendto"), SyncSendtoNext(FALSE),
     ReadTXNext(FALSE), BytesToNext(FALSE, "FollowupSendto"),
     FollowupSendtoNext(FALSE), FollowupSendtoNext(TRUE)}

AnnounceExits ==
    {BytesToNext(b, AnnounceSendtoNext(s)) : b \in BOOLEAN, s \in BOOLEAN}

DelayRespExits ==
    {BytesToNext(b, DelayRespSendtoNext(s)) : b \in BOOLEAN, s \in BOOLEAN}

SwitchExits(st) ==
    CASE st = "Sync" -> SyncExits
      [] st = "Announce" -> AnnounceExits
      [] st = "DelayResp" -> DelayRespExits
      [] OTHER -> {UnknownTypeNext}

\* The scheduler queues a job for a client on the worker that owns it.
PoolEnqueue ==
    /\ PoolRunning
    /\ issued < PoolJobs
    /\ \E cl \in Clients :
          /\ ~workers[owner[cl]].closed
          /\ Len(workers[owner[cl]].queue) < QueueSize
          /\ workers' = [workers EXCEPT ![owner[cl]].queue = Append(@, cl)]
    /\ issued' = issued + 1
    /\ UNCHANGED <<single, sequenceID, owner, advanced>>

\* The scheduler closes a worker's queue.
PoolClose(w) ==
    /\ PoolRunning
    /\ ~workers[w].closed
    /\ workers' = [workers EXCEPT ![w].closed = TRUE]
    /\ UNCHANGED <<single, sequenceID, owner, issued, advanced>>

\* The setup calls of Start, any of which can end the process.
PoolSetup(w) ==
    /\ PoolRunning
    /\ workers[w].pc = "ListenEvent"
    /\ \E ok \in BOOLEAN :
          workers' = [workers EXCEPT ![w].pc = SetupNext(ok, "range")]
    /\ UNCHANGED <<single, sequenceID, owner, issued, advanced>>

PoolReceive(w) ==
    /\ PoolRunning
    /\ workers[w].pc = "range"
    /\ workers[OwnQueue(w)].queue # <<>>
    /\ LET recv == ChanRecv(workers[OwnQueue(w)].queue)
           popped == [workers EXCEPT ![OwnQueue(w)].queue = recv.rest]
       IN  workers' = [popped EXCEPT ![w].c = recv.val, ![w].pc = "switch"]
    /\ UNCHANGED <<single, sequenceID, owner, issued, advanced>>

PoolRangeEnd(w) ==
    /\ PoolRunning
    /\ workers[w].pc = "range"
    /\ RangeDone(workers[OwnQueue(w)].queue, workers[OwnQueue(w)].closed)
    /\ workers' = [workers EXCEPT ![w].pc = "defer"]
    /\ UNCHANGED <<single, sequenceID, owner, issued, advanced>>

PoolSwitch(w) ==
    /\ PoolRunning
    /\ workers[w].pc = "switch"
    /\ \E next \in SwitchExits(subscriptionType[workers[w].c]) :
          workers' = [workers EXCEPT ![w].pc = next]
    /\ UNCHANGED <<single, sequenceID, owner, issued, advanced>>

\* c.sequenceID++ reads the field ...
PoolReadSeq(w) ==
    /\ PoolRunning
    /\ workers[w].pc = "bookkeeping"
    /\ workers' = [workers EXCEPT ![w].seqRead = sequenceID[workers[w].c],
                                  ![w].pc = "store"]
    /\ UNCHANGED <<single, sequenceID, owner, issued, advanced>>

\* ... and writes it back, one higher; the two reports follow.
PoolWriteSeq(w) ==
    /\ PoolRunning
    /\ workers[w].pc = "store"
    /\ sequenceID' = [sequenceID EXCEPT ![workers[w].c] = workers[w].seqRead + 1]
    /\ advanced' = [advanced EXCEPT ![workers[w].c] = @ + 1]
    /\ workers' = [workers EXCEPT ![w].seqRead = 0, ![w].pc = "range"]
    /\ UNCHANGED <<single, owner, issued>>

PoolRunDefers(w) ==
    /\ PoolRunning
    /\ workers[w].pc = "defer"
    /\ workers' = [workers EXCEPT ![w].pc = "returned"]
    /\ UNCHANGED <<single, sequenceID, owner, issued, advanced>>

PoolWorker(w) ==
    \/ PoolSetup(w)
    \/ PoolReceive(w)
    \/ PoolRangeEnd(w)
    \/ PoolSwitch(w)
    \/ PoolReadSeq(w)
    \/ PoolWriteSeq(w)
    \/ PoolRunDefers(w)

PoolNext ==
    \/ PoolEnqueue
    \/ \E w \in PoolIDs : PoolClose(w)
    \/ \E w \in PoolIDs : PoolWorker(w)

PoolSpec == PoolInit /\ [][PoolNext]_vars

\* ---------------------------------------------------------------- C14
\* Worker w is between the read and the write of cl's sequence number.
Advancing(w, cl) == workers[w].pc = "store" /\ workers[w].c = cl

\* C14: in a pool where every client is assigned to one worker, under every
\* interleaving a client's sequence number changes only in a step of the
\* worker that owns it, which raises it; and whenever no worker is in the
\* middle of advancing it, it is its initial value plus the number of jobs
\* of the client that got to the end of the loop body, which is what the
\* same jobs run one after another leave.
C14_OwnWorkerOnly ==
    /\ [][\A cl \in Clients :
            sequenceID'[cl] # sequenceID[cl]
                => /\ Advancing(owner[cl], cl)
                   /\ ~Advancing(owner[cl], cl)'
                   /\ \A w \in PoolIDs \ {owner[cl]} : workers'[w] = workers[w]
                   /\ sequenceID'[cl] > sequenceID[cl]]_vars
    /\ [](\A cl \in Clients :
            (\A w \in PoolIDs : ~Advancing(w, cl))
                => sequenceID[cl] = InitSequenceID[cl] + advanced[cl])

\* Both workers have returned after each advanced a client of its own, one
\* of them twice.
C14_Witness ==
    /\ \A w \in PoolIDs : workers[w].pc = "returned"
    /\ owner["c1"] # owner["c2"]
    /\ advanced["c1"] >= 1
    /\ advanced["c2"] >= 1
    /\ advanced["c1"] + advanced["c2"] = PoolJobs

====
